---- MODULE Spec2Model ----
(***************************************************************************)
(* The metrics-broadcasting agent of scripts/system-monitor-agent.py:      *)
(* SystemMonitor's client set, its two broadcast coroutines, the client    *)
(* handler and the monitoring loop, as coroutines of one asyncio event     *)
(* loop.  A coroutine runs without interruption from one suspension point  *)
(* to the next; the suspension points are `await client.send(...)`,        *)
(* `async for message in websocket` and `await asyncio.sleep(1)`.  The     *)
(* collectors (get_system_metrics, get_network_flows) only await           *)
(* coroutines that never suspend, so a collection is one uninterrupted     *)
(* step.                                                                   *)
(*                                                                         *)
(* The command executor of backend/command_executor.py: CommandExecutor's  *)
(* execution history and the three routes that run commands, each request  *)
(* served as one step.                                                     *)
(***************************************************************************)
EXTENDS Integers, Sequences, FiniteSets, TLC

\* Number of client connections (websocket objects) the model follows.
NumConns == 2

\* Number of register/unregister calls the call driver makes.
MaxCalls == 4

\* Longest time a broadcast takes, in tenths of a second.
MaxWork == 3

\* Longest list of commands of a batch request.
MaxBatch == 2

\* Number of requests to the command executor the model follows.
MaxRequests == 2

\* Largest limit a request to /api/history gives.
MaxLimit == 3

Conns == 1..NumConns
\* The monitoring task created by start_server.
Timer == 0
Procs == {Timer} \cup Conns

VARIABLES
    clients,    \* self.clients
    running,    \* self.running
    net,        \* per connection: the state of its transport
    pc,         \* per coroutine: where it is suspended
    bc,         \* per coroutine: the frame of the broadcast it is suspended in
    completed,  \* observation: the broadcast calls that returned in the last step
    invoked,    \* observation: the broadcast calls made in the last step
    inbound,    \* observation: the inbound message consumed in the last step
    calls,      \* observation (register/unregister driver): the calls made so far
    raised,     \* observation (register/unregister driver): a call raised
    listening,  \* the listening socket of the websockets server is open
    server,     \* where start_server is
    clock,      \* time.time(), in tenths of a second, modulo two seconds
    ticks,      \* observation (timed loop): its last two iterations
    execution_history,  \* executor.execution_history
    served      \* observation (command executor): the last request served

vars == <<clients, running, net, pc, bc, completed, invoked, inbound, calls, raised,
          listening, server, clock, ticks, execution_history, served>>

----------------------------------------------------------------------------
(* Values *)

EmptyDict == << >>
EmptyList == << >>

\* What a collection can do: raise inside the collector's try block, or build
\* a value.  A metrics record that is built has all its groups, so it is never
\* empty; a flow list is empty when no connection has both addresses.
\* A dict is the tuple of its (key, value) members in insertion order, a list
\* the tuple of its elements.
MetricsOutcomes ==
    { [raises |-> TRUE, value |-> EmptyDict],
      [raises |-> FALSE, value |-> << <<"cpu", 10>> >>] }
FlowsOutcomes ==
    { [raises |-> TRUE, value |-> EmptyList],
      [raises |-> FALSE, value |-> EmptyList],
      [raises |-> FALSE, value |-> << << <<"destPort", 443>> >> >>] }

\* Python truthiness of a dict or a list: non-empty.
Truthy(x) == DOMAIN x # {}

\* get_system_metrics: the snapshot, or {} when anything in the body raised.
get_system_metrics(outcome) == IF outcome.raises THEN EmptyDict ELSE outcome.value

\* get_network_flows: the flow list, or [] when anything in the body raised.
get_network_flows(outcome) == IF outcome.raises THEN EmptyList ELSE outcome.value

MetricsKind == "metrics"
FlowsKind == "network_flows"

\* The producer each broadcast coroutine calls.
Produce(k, outcome) ==
    IF k = MetricsKind THEN get_system_metrics(outcome) ELSE get_network_flows(outcome)

\* The flows message built with the type of the metrics message.
Envelope_MetricsOnly(k, payload) == [type |-> "metrics", payload |-> payload]

\* message = {"type": ..., "payload": ...}
Envelope(k, payload) == [type |-> k, payload |-> payload]

\* json.dumps(message): the members in insertion order.
json_dumps(message) == << <<"type", message.type>>, <<"payload", message.payload>> >>

----------------------------------------------------------------------------
(* The client set *)

\* register_client: self.clients.add(websocket)
register_client(cl, c) == cl \cup {c}

\* set.remove(x): KeyError when x is absent.
discard_AsRemove(cl, c) == [set |-> cl \ {c}, raises |-> c \notin cl]

\* set.discard(x): removes x when present, never raises.
discard(cl, c) == [set |-> cl \ {c}, raises |-> FALSE]

\* unregister_client: self.clients.discard(websocket)
unregister_client(cl, c) == discard(cl, c)

----------------------------------------------------------------------------
(* One broadcast call: broadcast_metrics / broadcast_network_flows *)

NoCounts == [c \in Conns |-> 0]

\* The frame of a coroutine that is in no broadcast.
IdleFrame ==
    [ active |-> FALSE, kind |-> "none",
      message |-> Envelope("none", EmptyDict),
      used |-> 0, pending |-> {}, cur |-> 0, dirty |-> FALSE,
      disconnected |-> {},
      start |-> {}, attempted |-> {}, failed |-> {}, got |-> NoCounts,
      msgs |-> {}, mutBy |-> {} ]

\* The frame on entering `for client in self.clients`: the message is built,
\* `disconnected` is empty and the set iterator remembers the size of the set
\* (si_used) and has every member ahead of it.  start, attempted, failed, got,
\* msgs and mutBy observe the pass and are read by no step.
FreshFrame(k, cl, payload) ==
    [ active |-> TRUE, kind |-> k,
      message |-> Envelope(k, payload),
      used |-> Cardinality(cl), pending |-> cl, cur |-> 0, dirty |-> FALSE,
      disconnected |-> {},
      start |-> cl, attempted |-> {}, failed |-> {}, got |-> NoCounts,
      msgs |-> {}, mutBy |-> {} ]

\* A broadcast without the check of the set.
ShortCircuit_Missing(cl) == FALSE

\* `if not self.clients: return`
ShortCircuit(cl) == cl = {}

\* A broadcast that sends whatever the producer returned.
Sendable_Always(payload) == TRUE

\* `if metrics:` / `if flows:`
Sendable(payload) == Truthy(payload)

\* The members the iterator of a frame can still have ahead of it.  An add
\* made while the pass was suspended may have rebuilt the hash table, after
\* which the members at and after the iterator's index are any of the set's
\* members; otherwise they are the members not yet visited.
Ahead(f, cl) == IF f.dirty THEN SUBSET cl ELSE {f.pending}

\* The set iterator's check in next(): RuntimeError ("Set changed size during
\* iteration") when the set's size differs from the size it had when the
\* iterator was made.
SizeChanged(f, cl) == Cardinality(cl) # f.used

\* The frame suspended in `await client.send(json.dumps(message))` to `pick`,
\* the members `ahead` being those at and after the iterator's index.
AtSend(f, pick, ahead) ==
    [f EXCEPT !.pending = ahead \ {pick}, !.cur = pick,
              !.dirty = FALSE, !.attempted = @ \cup {pick}]

\* A failed send that is not recorded.
MarkDisconnected_Forgotten(disc, c) == disc

\* `except ...: disconnected.add(client)`
MarkDisconnected(disc, c) == disc \cup {c}

\* A broadcast without its removal loop.
RemoveDisconnected_Keep(cl, disc) == cl

\* A removal loop that empties the set.
RemoveDisconnected_All(cl, disc) == {}

\* `for client in disconnected: self.clients.discard(client)`
RemoveDisconnected(cl, disc) == cl \ disc

\* The frame after the send to f.cur returned (ok) or raised (~ok).
AfterSend(f, ok) ==
    IF ok
    THEN [f EXCEPT !.got[f.cur] = @ + 1,
                   !.msgs = @ \cup {json_dumps(f.message)}]
    ELSE [f EXCEPT !.disconnected = MarkDisconnected(@, f.cur),
                   !.failed = @ \cup {f.cur}]

\* What is observed of a broadcast call when it returns.
Returned(p, f, site, k, clBefore, producerCalls, failedCollect, produced, aborted, clAfter) ==
    [ proc |-> p, kind |-> k, site |-> site,
      producerCalls |-> producerCalls, failedCollect |-> failedCollect,
      produced |-> produced, aborted |-> aborted,
      clientsBefore |-> clBefore, clientsAfter |-> clAfter,
      attempted |-> f.attempted, failed |-> f.failed,
      got |-> f.got, msgs |-> f.msgs, mutBy |-> f.mutBy ]

\* The broadcast of kind k called at `site` returns before any send.
ReturnedAtOnce(p, site, k, cl, producerCalls, failedCollect, produced) ==
    Returned(p, IdleFrame, site, k, cl, producerCalls, failedCollect, produced, FALSE, cl)

----------------------------------------------------------------------------
(* The callers of broadcast: handle_client and start_monitoring *)

\* A monitoring task that makes one tick and returns.
RestPc_OneTick(p) == IF p = Timer THEN "done" ELSE "recv"

\* What a coroutine is doing when it is in no broadcast and not finished.
RestPc(p) == IF p = Timer THEN "sleep" ELSE "recv"

\* A handle_client that sends no initial flows.
NextSite_NoInitialFlows(site, even) ==
    IF site = "t_metrics" /\ even THEN "t_flows" ELSE "none"

\* The broadcast a caller makes right after the one at `site` returned:
\* handle_client sends the initial flows after the initial metrics, and
\* start_monitoring sends the flows when int(time.time()) % 2 == 0.
NextSite(site, even) ==
    IF site = "init_metrics" THEN "init_flows"
    ELSE IF site = "t_metrics" /\ even THEN "t_flows"
    ELSE "none"

\* The values int(time.time()) % 2 == 0 can have where `site` reads it.
Parity(site) == IF site = "t_metrics" THEN BOOLEAN ELSE {TRUE}

Outcomes(k) == IF k = MetricsKind THEN MetricsOutcomes ELSE FlowsOutcomes

Invocation(p, site, k) == [proc |-> p, site |-> site, kind |-> k]

\* A suspended pass sees a change of the set made by another coroutine: a
\* removed member is no longer ahead of its iterator, an added one may be.
Disturb(f, cl, cl2, src) ==
    IF ~f.active \/ cl = cl2 THEN f
    ELSE [f EXCEPT !.pending = @ \cap cl2,
                   !.dirty = @ \/ (cl2 \ cl # {}),
                   !.mutBy = @ \cup {src}]

\* Coroutine p ends its step at `at` with frame f and the set cl; src names
\* the code that changed the set in this step.
Suspend(p, at, f, cl, recs, invs, src) ==
    /\ clients' = cl
    /\ pc' = [pc EXCEPT ![p] = at]
    /\ bc' = [q \in Procs |->
                IF q = p THEN f ELSE Disturb(bc[q], clients, cl, src)]
    /\ completed' = recs
    /\ invoked' = invs

\* A broadcast of kind k called by p at `site` with the set cl, to p's next
\* suspension, when no other broadcast follows it: it returns at once on an
\* empty set or an empty payload, else it is suspended in its first send.
EnterLast(p, site, k, cl, recs, invs, src) ==
    IF ShortCircuit(cl)
    THEN Suspend(p, RestPc(p), IdleFrame, cl,
                 Append(recs, ReturnedAtOnce(p, site, k, cl, 0, FALSE, EmptyDict)),
                 Append(invs, Invocation(p, site, k)), src)
    ELSE \E o \in Outcomes(k) :
            LET payload == Produce(k, o)
            IN  IF ~Sendable(payload)
                THEN Suspend(p, RestPc(p), IdleFrame, cl,
                             Append(recs, ReturnedAtOnce(p, site, k, cl, 1, o.raises, payload)),
                             Append(invs, Invocation(p, site, k)), src)
                ELSE \E first \in cl :
                        Suspend(p, site, AtSend(FreshFrame(k, cl, payload), first, cl),
                                cl, recs, Append(invs, Invocation(p, site, k)), src)

\* The caller p from the return of its broadcast at `site` to its next
\* suspension; recs and invs are what the step has observed so far.
Leave(p, site, cl, recs, invs, src) ==
    \E even \in Parity(site) :
        IF NextSite(site, even) = "none"
        THEN Suspend(p, RestPc(p), IdleFrame, cl, recs, invs, src)
        ELSE EnterLast(p, NextSite(site, even), FlowsKind, cl, recs, invs, src)

\* A broadcast of kind k called by p at `site` with the set cl, to p's next
\* suspension.
Enter(p, site, k, cl, src) ==
    IF ShortCircuit(cl)
    THEN Leave(p, site, cl, <<ReturnedAtOnce(p, site, k, cl, 0, FALSE, EmptyDict)>>,
               <<Invocation(p, site, k)>>, src)
    ELSE \E o \in Outcomes(k) :
            LET payload == Produce(k, o)
            IN  IF ~Sendable(payload)
                THEN Leave(p, site, cl, <<ReturnedAtOnce(p, site, k, cl, 1, o.raises, payload)>>,
                           <<Invocation(p, site, k)>>, src)
                ELSE \E first \in cl :
                        Suspend(p, site, AtSend(FreshFrame(k, cl, payload), first, cl),
                                cl, << >>, <<Invocation(p, site, k)>>, src)

\* The pass of frame f resumed when its send returned: the next send; or the
\* end of the loop followed by the removal of the marked connections; or the
\* RuntimeError of next(), which the outer `except Exception` catches, so
\* that the call returns with the marked connections still in the set.
Resume(p, f, cl) ==
    IF SizeChanged(f, cl)
    THEN Leave(p, pc[p], cl,
               <<Returned(p, f, pc[p], f.kind, f.start, 1, FALSE, f.message.payload, TRUE, cl)>>,
               << >>, "broadcast")
    ELSE \E ahead \in Ahead(f, cl) :
            IF ahead = {}
            THEN Leave(p, pc[p], RemoveDisconnected(cl, f.disconnected),
                       <<Returned(p, f, pc[p], f.kind, f.start, 1, FALSE, f.message.payload, FALSE,
                                  RemoveDisconnected(cl, f.disconnected))>>,
                       << >>, "broadcast")
            ELSE \E pick \in ahead :
                    Suspend(p, pc[p], AtSend(f, pick, ahead), cl, << >>, << >>, "broadcast")

\* Inbound texts a client can send.
Msgs ==
    { "{\"type\": \"get_metrics\"}", "{\"type\": \"get_flows\"}",
      "{\"type\": \"ping\"}", "{}", "[1]", "not json" }

\* json.loads(message): JSONDecodeError, or the value (a dict with its "type"
\* member, None when it has none; or a value that is no dict).
json_loads(m) ==
    CASE m = "{\"type\": \"get_metrics\"}" -> [error |-> FALSE, dict |-> TRUE, type |-> "get_metrics"]
      [] m = "{\"type\": \"get_flows\"}" -> [error |-> FALSE, dict |-> TRUE, type |-> "get_flows"]
      [] m = "{\"type\": \"ping\"}" -> [error |-> FALSE, dict |-> TRUE, type |-> "ping"]
      [] m = "{}" -> [error |-> FALSE, dict |-> TRUE, type |-> "None"]
      [] m = "[1]" -> [error |-> FALSE, dict |-> FALSE, type |-> "None"]
      [] OTHER -> [error |-> TRUE, dict |-> FALSE, type |-> "None"]

\* A body that answers get_flows with the metrics.
Dispatch_Swapped(m) ==
    LET data == json_loads(m)
    IN  IF data.error THEN "JSONDecodeError"
        ELSE IF ~data.dict THEN "Exception"
        ELSE IF data.type \in {"get_metrics", "get_flows"} THEN "metrics"
        ELSE "pass"

\* The body of `async for message in websocket`: the broadcast it calls, or
\* the except clause that ends it, or "pass" when no branch is taken.
Dispatch(m) ==
    LET data == json_loads(m)
    IN  IF data.error THEN "JSONDecodeError"
        ELSE IF ~data.dict THEN "Exception"
        ELSE IF data.type = "get_metrics" THEN MetricsKind
        ELSE IF data.type = "get_flows" THEN FlowsKind
        ELSE "pass"

\* A body with no `except Exception` clause.
Caught_JsonOnly(exc) == exc = "JSONDecodeError"

\* The except clauses around the body: `except json.JSONDecodeError` and
\* `except Exception`.  What they do not catch ends the `async for`.
Caught(exc) == exc \in {"JSONDecodeError", "Exception"}

NoInbound == [conn |-> 0, msg |-> ""]

\* No request to the command executor has been served.
NoRequest ==
    [n |-> 0, route |-> "none", data |-> << >>, env |-> << >>, reply |-> << >>,
     spawned |-> << >>, before |-> << >>]

----------------------------------------------------------------------------
(* Actions *)

Driver == UNCHANGED <<calls, raised, running, listening, server, clock, ticks,
                      execution_history, served>>

\* A client completes the handshake: handle_client registers it and sends the
\* initial metrics and flows.
Connect(c) ==
    /\ Driver
    /\ listening
    /\ pc[c] = "idle"
    /\ net' = [net EXCEPT ![c] = "open"]
    /\ inbound' = NoInbound
    /\ Enter(c, "init_metrics", MetricsKind, register_client(clients, c), "handler")

\* The send a coroutine is suspended in returns or raises ConnectionClosed; a
\* send to a stalled connection does neither.
SendReturn(p) ==
    /\ Driver
    /\ bc[p].active
    /\ net[bc[p].cur] # "stalled"
    /\ UNCHANGED net
    /\ inbound' = NoInbound
    /\ Resume(p, AfterSend(bc[p], net[bc[p].cur] = "open"), clients)

\* One iteration of `while self.running` in start_monitoring, entered at the
\* start of the task and when asyncio.sleep(1) is over.
TimerTick ==
    /\ Driver
    /\ pc[Timer] \in {"ready", "sleep"}
    /\ running
    /\ UNCHANGED net
    /\ inbound' = NoInbound
    /\ Enter(Timer, "t_metrics", MetricsKind, clients, "timer")

\* handle_client receives one message from its websocket.
Inbound(c, m) ==
    /\ Driver
    /\ pc[c] = "recv"
    /\ UNCHANGED net
    /\ inbound' = [conn |-> c, msg |-> m]
    /\ IF Dispatch(m) \in {MetricsKind, FlowsKind}
       THEN Enter(c, "req", Dispatch(m), clients, "handler")
       ELSE IF Dispatch(m) = "pass" \/ Caught(Dispatch(m))
       THEN Suspend(c, "recv", IdleFrame, clients, << >>, << >>, "handler")
       ELSE Suspend(c, "done", IdleFrame, unregister_client(clients, c).set,
                    << >>, << >>, "handler")

\* The websocket iterator ends or raises ConnectionClosed: handle_client runs
\* its finally clause and returns.
HandlerEnd(c) ==
    /\ Driver
    /\ pc[c] = "recv"
    /\ net[c] = "closed"
    /\ UNCHANGED net
    /\ inbound' = NoInbound
    /\ Suspend(c, "done", IdleFrame, unregister_client(clients, c).set,
               << >>, << >>, "handler")

\* The transport of a connection closes (the client leaves, the network fails).
Close(c) ==
    /\ Driver
    /\ net[c] \in {"open", "stalled"}
    /\ net' = [net EXCEPT ![c] = "closed"]
    /\ inbound' = NoInbound /\ completed' = << >> /\ invoked' = << >>
    /\ UNCHANGED <<clients, pc, bc>>

\* A client stops reading: sends to it no longer complete.
Stall(c) ==
    /\ Driver
    /\ net[c] = "open"
    /\ net' = [net EXCEPT ![c] = "stalled"]
    /\ inbound' = NoInbound /\ completed' = << >> /\ invoked' = << >>
    /\ UNCHANGED <<clients, pc, bc>>

Init ==
    /\ clients = {}
    /\ running = TRUE
    /\ net = [c \in Conns |-> "new"]
    /\ pc = [p \in Procs |-> IF p = Timer THEN "ready" ELSE "idle"]
    /\ bc = [p \in Procs |-> IdleFrame]
    /\ completed = << >>
    /\ invoked = << >>
    /\ inbound = NoInbound
    /\ calls = << >>
    /\ raised = FALSE
    /\ listening = TRUE
    /\ server = "serving"
    /\ clock = 0
    /\ ticks = << >>
    /\ execution_history = << >>
    /\ served = NoRequest

Next ==
    \/ \E c \in Conns : Connect(c)
    \/ \E p \in Procs : SendReturn(p)
    \/ TimerTick
    \/ \E c \in Conns, m \in Msgs : Inbound(c, m)
    \/ \E c \in Conns : HandlerEnd(c)
    \/ \E c \in Conns : Close(c)

Spec == Init /\ [][Next]_vars

----------------------------------------------------------------------------
(* The agent with clients that stop reading.  The event loop runs every
   coroutine that can run: a send that can return does return, a handler
   whose websocket is closed ends, the monitoring loop wakes from its sleep.
   Nothing makes a client connect, close or resume reading. *)

StallNext ==
    \/ \E c \in Conns : Connect(c)
    \/ \E p \in Procs : SendReturn(p)
    \/ TimerTick
    \/ \E c \in Conns : HandlerEnd(c)
    \/ \E c \in Conns : Close(c)
    \/ \E c \in Conns : Stall(c)

StallSpec ==
    /\ Init
    /\ [][StallNext]_vars
    /\ \A p \in Procs : WF_vars(SendReturn(p))
    /\ WF_vars(TimerTick)
    /\ \A c \in Conns : WF_vars(HandlerEnd(c))

----------------------------------------------------------------------------
(* Shutdown: the process receives SIGINT while start_server awaits
   asyncio.gather(server.wait_closed(), monitoring_task). *)

\* What the interpreter raises in start_server at its `await asyncio.gather`:
\* KeyboardInterrupt when the signal interrupted a step of the monitoring
\* task (that task ends with it and gather hands it on), or CancelledError
\* when asyncio.run turns the signal into a cancellation of its main task.
Signals == {"KeyboardInterrupt", "CancelledError"}

\* `except KeyboardInterrupt` around the gather.
Handles(exc) == exc = "KeyboardInterrupt"

\* The handlers that have started and not returned.
Serving == {c \in Conns : pc[c] \notin {"idle", "done"}}

\* The signal is handled.  The except clause clears the flag, cancels the
\* monitoring task and closes the server, which stops listening and closes
\* the open connections; start_server then awaits server.wait_closed().
\* An exception the clause does not catch unwinds start_server: the gather
\* cancels the monitoring task, asyncio.run cancels the handlers, whose
\* finally clauses unregister their connections, and main() gets the
\* KeyboardInterrupt with the flag and the listening socket as they were.
Shutdown(exc) ==
    /\ server = "serving"
    /\ UNCHANGED <<calls, raised, clock, ticks, execution_history, served>>
    /\ inbound' = NoInbound /\ completed' = << >> /\ invoked' = << >>
    /\ net' = [c \in Conns |-> IF net[c] \in {"open", "stalled"} THEN "closed" ELSE net[c]]
    /\ IF Handles(exc)
       THEN /\ running' = FALSE
            /\ pc' = [pc EXCEPT ![Timer] = "cancelled"]
            /\ bc' = [bc EXCEPT ![Timer] = IdleFrame]
            /\ listening' = FALSE
            /\ server' = "closing"
            /\ UNCHANGED clients
       ELSE /\ pc' = [p \in Procs |-> IF p = Timer THEN "cancelled"
                                     ELSE IF p \in Serving THEN "done" ELSE pc[p]]
            /\ bc' = [p \in Procs |-> IdleFrame]
            /\ clients' = clients \ Serving
            /\ server' = "unwound"
            /\ UNCHANGED <<running, listening>>

\* server.wait_closed() returns when every handler has returned, and with it
\* start_server.
ServerReturn ==
    /\ server = "closing"
    /\ Serving = {}
    /\ server' = "returned"
    /\ inbound' = NoInbound /\ completed' = << >> /\ invoked' = << >>
    /\ UNCHANGED <<clients, running, net, pc, bc, calls, raised, listening, clock, ticks,
                   execution_history, served>>

ShutNext ==
    \/ \E c \in Conns : Connect(c)
    \/ \E p \in Procs : SendReturn(p)
    \/ TimerTick
    \/ \E c \in Conns : HandlerEnd(c)
    \/ \E c \in Conns : Close(c)
    \/ \E exc \in Signals : Shutdown(exc)
    \/ ServerReturn

ShutSpec ==
    /\ Init
    /\ [][ShutNext]_vars
    /\ \A p \in Procs : WF_vars(SendReturn(p))
    /\ WF_vars(TimerTick)
    /\ \A c \in Conns : WF_vars(HandlerEnd(c))
    /\ WF_vars(ServerReturn)

----------------------------------------------------------------------------
(* register_client and unregister_client called directly, in any order *)

Register(c) ==
    /\ Len(calls) < MaxCalls
    /\ clients' = register_client(clients, c)
    /\ calls' = Append(calls, [op |-> "register", conn |-> c])
    /\ UNCHANGED <<running, net, pc, bc, completed, invoked, inbound, raised, listening, server, clock, ticks,
                 execution_history, served>>

Unregister(c) ==
    /\ Len(calls) < MaxCalls
    /\ clients' = unregister_client(clients, c).set
    /\ raised' = (raised \/ unregister_client(clients, c).raises)
    /\ calls' = Append(calls, [op |-> "unregister", conn |-> c])
    /\ UNCHANGED <<running, net, pc, bc, completed, invoked, inbound, listening, server, clock, ticks,
                 execution_history, served>>

RegNext ==
    \/ \E c \in Conns : Register(c)
    \/ \E c \in Conns : Unregister(c)

RegSpec == Init /\ [][RegNext]_vars

----------------------------------------------------------------------------
(* The monitoring loop with its clock.  An iteration whose sends all return
   is one step that takes the time of its broadcasts and of its sleep; the
   set grows between iterations by register calls. *)

\* Tenths of a second in a second.
PerSecond == 10

\* The clock is kept modulo the period of int(time.time()) % 2.
Period == 2 * PerSecond

\* asyncio.sleep(1)
Sleep == 1 * PerSecond

\* A reading of the clock that takes the parity of the tenth, not of the
\* second.
SecondIsEven_Tenth(t) == (t % Period) % 2 = 0

\* int(time.time()) % 2 == 0 at time t.
SecondIsEven(t) == ((t % Period) \div PerSecond) % 2 = 0

\* The time a broadcast of kind k takes with the set cl: none when it returns
\* at once on an empty set; at least the tenth of a second for which
\* psutil.cpu_percent(interval=0.1) blocks when the metrics are collected.
Work(k, cl) ==
    IF ShortCircuit(cl) THEN {0}
    ELSE IF k = MetricsKind THEN 1..MaxWork
    ELSE 0..MaxWork

\* One iteration of `while self.running`: the metrics broadcast, the reading
\* of the clock, the flows broadcast when the second is even, the sleep.
TimedTick(dm, df) ==
    LET read == (clock + dm) % Period
        flows == NextSite("t_metrics", SecondIsEven(read)) = "t_flows"
        done == IF flows THEN (read + df) % Period ELSE read
    IN  /\ running
        /\ dm \in Work(MetricsKind, clients)
        /\ df \in Work(FlowsKind, clients)
        /\ ~flows => df = 0
        /\ invoked' = IF flows
                      THEN <<Invocation(Timer, "t_metrics", MetricsKind),
                             Invocation(Timer, "t_flows", FlowsKind)>>
                      ELSE <<Invocation(Timer, "t_metrics", MetricsKind)>>
        /\ clock' = (done + Sleep) % Period
        /\ ticks' = (IF ticks = << >> THEN << >> ELSE <<ticks[Len(ticks)]>>)
                      \o <<[start |-> clock, read |-> read, flows |-> flows,
                            done |-> done, members |-> clients]>>
        /\ UNCHANGED <<clients, running, net, pc, bc, completed, inbound, calls,
                       raised, listening, server, execution_history, served>>

ClockNext ==
    \/ \E dm, df \in 0..MaxWork : TimedTick(dm, df)
    \/ \E c \in Conns : Register(c)

ClockSpec == Init /\ [][ClockNext]_vars

----------------------------------------------------------------------------
(* The command executor of backend/command_executor.py: CommandExecutor and
   the Flask routes /api/execute, /api/execute-batch and
   /api/execute-terminal-batch.  A text is the sequence of its characters. *)

UpperCase == <<"A", "B", "C", "D", "E", "F", "G", "H", "I", "J", "K", "L", "M", "N", "O", "P", "Q", "R", "S", "T", "U", "V", "W", "X", "Y", "Z">>
LowerCase == <<"a", "b", "c", "d", "e", "f", "g", "h", "i", "j", "k", "l", "m", "n", "o", "p", "q", "r", "s", "t", "u", "v", "w", "x", "y", "z">>

\* str.lower(), character by character.
LowerChar(ch) ==
    IF \E i \in 1..26 : UpperCase[i] = ch
    THEN LowerCase[CHOOSE i \in 1..26 : UpperCase[i] = ch]
    ELSE ch

lower(text) == [i \in 1..Len(text) |-> LowerChar(text[i])]

\* str.strip(): the text without its leading and trailing blanks.
RECURSIVE strip(_)
strip(text) ==
    IF text = << >> THEN text
    ELSE IF Head(text) = " " THEN strip(Tail(text))
    ELSE IF text[Len(text)] = " " THEN strip(SubSeq(text, 1, Len(text) - 1))
    ELSE text

\* `needle in text`
Contains(text, needle) ==
    \E i \in 1..(Len(text) - Len(needle) + 1) :
        SubSeq(text, i, i + Len(needle) - 1) = needle

\* dangerous_commands of the route /api/execute
dangerous_commands ==
    << <<"r", "m", " ", "-", "r", "f", " ", "/">>,
       <<"d", "e", "l", " ", "/", "f", " ", "/", "q">>,
       <<"f", "o", "r", "m", "a", "t">>,
       <<"m", "k", "f", "s">>,
       <<"d", "d", " ", "i", "f", "=">>,
       <<"s", "h", "r", "e", "d">>,
       <<"r", "m", "d", "i", "r", " ", "/", "s">>,
       <<"d", "e", "l", "t", "r", "e", "e">>,
       <<"f", "d", "i", "s", "k">>,
       <<"p", "a", "r", "t", "e", "d">>,
       <<"w", "i", "p", "e", "f", "s">> >>

\* any(dangerous in command.lower() for dangerous in dangerous_commands)
IsDangerous(command) ==
    \E i \in DOMAIN dangerous_commands : Contains(lower(command), dangerous_commands[i])

\* The command texts of the requests.
CmdLs == <<"l", "s">>
CmdSleep == <<"s", "l", "e", "e", "p", " ", "6", "0">>
CmdMkfs == <<" ", "M", "K", "F", "S", " ", "/", "d", "e", "v", "/", "s", "d", "a">>
CmdBlank == <<" ">>
Commands == {CmdLs, CmdSleep, CmdMkfs}

\* timeout=10 of the subprocess.run that opens the terminal
TerminalTimeout == 10

\* data.get('timeout', 30)
DefaultTimeout == 30

\* The timeouts a request can give, in seconds.
Timeouts == {DefaultTimeout, 100}

\* The seconds a command runs for.
RunTime(command) == IF command = CmdSleep THEN 60 ELSE 1

\* What the system does for one command.  The opening of the terminal
\* raises at once (no terminal emulator: OSError) or takes the given seconds;
\* when it raises or exceeds its timeout the background run is reached, which
\* raises at once (prepare_command or the start of the shell fails) or ends
\* with the given return code, unless it exceeds its timeout.
Envs ==
    { [open |-> [raises |-> FALSE, took |-> 1], run |-> [raises |-> FALSE, returncode |-> 0]],
      [open |-> [raises |-> TRUE, took |-> 1], run |-> [raises |-> FALSE, returncode |-> 0]],
      [open |-> [raises |-> FALSE, took |-> 20], run |-> [raises |-> FALSE, returncode |-> 1]],
      [open |-> [raises |-> TRUE, took |-> 1], run |-> [raises |-> TRUE, returncode |-> 0]] }

\* A process handed to subprocess.run.
Spawn(via, command, timeout) == [via |-> via, command |-> command, timeout |-> timeout]

\* What a call of the executor gives: its return value, the history after it
\* and the processes it started.
Effect(response, history, spawned) ==
    [response |-> response, history |-> history, spawned |-> spawned]

\* A background run that records its timeouts in the history.
TimeoutEffect_Logged(command, timeout, history) ==
    LET r == [success |-> FALSE, command |-> command, error_type |-> "timeout"]
    IN  Effect(r, Append(history, r), <<Spawn("background", command, timeout)>>)

\* `except subprocess.TimeoutExpired` of execute_command_background
TimeoutEffect(command, timeout, history) ==
    Effect([success |-> FALSE, command |-> command, error_type |-> "timeout"],
           history, <<Spawn("background", command, timeout)>>)

\* CommandExecutor.execute_command_background
execute_command_background(command, timeout, env, history) ==
    IF env.run.raises
    THEN Effect([success |-> FALSE, command |-> command, error_type |-> "unknown"],
                history, << >>)
    ELSE IF RunTime(command) > timeout
    THEN TimeoutEffect(command, timeout, history)
    ELSE LET response == [success |-> TRUE, command |-> command, method |-> "background",
                          returncode |-> env.run.returncode,
                          stdout |-> <<"stdout", command>>,
                          stderr |-> <<"stderr", command>>]
         IN  Effect(response, Append(history, response),
                    <<Spawn("background", command, timeout)>>)

\* The timeout the fallback of execute_command_in_terminal runs with: one
\* that takes the terminal's.
FallbackTimeout_Terminal(timeout) == TerminalTimeout

\* `return self.execute_command_background(command, timeout)`
FallbackTimeout(timeout) == timeout

\* CommandExecutor.execute_command_in_terminal
execute_command_in_terminal(command, timeout, env, history) ==
    IF env.open.raises
    THEN execute_command_background(command, FallbackTimeout(timeout), env, history)
    ELSE IF env.open.took > TerminalTimeout
    THEN LET b == execute_command_background(command, FallbackTimeout(timeout), env, history)
         IN  Effect(b.response, b.history,
                    <<Spawn("terminal", command, TerminalTimeout)>> \o b.spawned)
    ELSE LET response == [success |-> TRUE, command |-> command,
                          method |-> "visible_terminal", returncode |-> 0,
                          stdout |-> <<"Terminal opened successfully">>,
                          stderr |-> << >>]
         IN  Effect(response, Append(history, response),
                    <<Spawn("terminal", command, TerminalTimeout)>>)

\* CommandExecutor.execute_command
execute_command(command, timeout, env, history) ==
    execute_command_in_terminal(command, timeout, env, history)

\* jsonify(body), status
Reply(status, body) == [status |-> status, body |-> body]

InvalidRequest == Reply(400, [success |-> FALSE, error_type |-> "invalid_request"])

\* The body of a request to /api/execute: `has` tells whether it has a
\* 'command' member.
ExecuteRequests ==
    [has : {TRUE}, command : Commands \cup {CmdBlank}, timeout : Timeouts,
     mode : {"terminal", "background"}]
        \cup {[has |-> FALSE, command |-> CmdLs, timeout |-> DefaultTimeout, mode |-> "terminal"]}

\* The route /api/execute
execute_route(data, env, history) ==
    IF ~data.has THEN Effect(InvalidRequest, history, << >>)
    ELSE LET command == strip(data.command)
         IN  IF command = << >> THEN Effect(InvalidRequest, history, << >>)
             ELSE IF IsDangerous(command)
             THEN Effect(Reply(403, [success |-> FALSE, error_type |-> "security_block",
                                     command |-> command]),
                         history, << >>)
             ELSE LET e == IF data.mode = "background"
                           THEN execute_command_background(command, data.timeout, env, history)
                           ELSE execute_command_in_terminal(command, data.timeout, env, history)
                  IN  Effect(Reply(200, e.response), e.history, e.spawned)

\* The lists of commands of a batch request.
BatchLists == UNION {[1..n -> Commands] : n \in 0..MaxBatch}

\* The body of a request to /api/execute-batch.
BatchRequests ==
    [has : {TRUE}, commands : BatchLists, timeout : Timeouts, stop_on_error : BOOLEAN]
        \cup {[has |-> FALSE, commands |-> << >>, timeout |-> DefaultTimeout,
               stop_on_error |-> TRUE]}

\* A loop that goes on after a failed command whatever stop_on_error is.
StopHere_Never(stop_on_error, result) == FALSE

\* `if stop_on_error and not result.get('success', False): break`
StopHere(stop_on_error, result) == stop_on_error /\ ~result.success

\* `for i, command in enumerate(commands)` of the route /api/execute-batch,
\* from the i-th command on: the results and what the executor has done.
RECURSIVE RunBatch(_, _, _, _, _, _)
RunBatch(data, i, envs, history, results, spawned) ==
    IF i > Len(data.commands)
    THEN Effect(results, history, spawned)
    ELSE LET e == execute_command(strip(data.commands[i]), data.timeout, envs[i], history)
         IN  IF StopHere(data.stop_on_error, e.response)
             THEN Effect(Append(results, e.response), e.history, spawned \o e.spawned)
             ELSE RunBatch(data, i + 1, envs, e.history,
                           Append(results, e.response), spawned \o e.spawned)

\* The route /api/execute-batch
execute_batch_commands(data, envs, history) ==
    IF ~data.has THEN Effect(InvalidRequest, history, << >>)
    ELSE LET e == RunBatch(data, 1, envs, history, << >>, << >>)
         IN  Effect(Reply(200, [success |-> TRUE, results |-> e.response,
                                total_commands |-> Len(data.commands),
                                executed_commands |-> Len(e.response)]),
                    e.history, e.spawned)

\* The body of a request to /api/execute-terminal-batch.
TerminalBatchRequests ==
    [has : {TRUE}, commands : BatchLists] \cup {[has |-> FALSE, commands |-> << >>]}

\* The route /api/execute-terminal-batch: one terminal is opened with a
\* script of all the commands.
execute_terminal_batch(data, env, history) ==
    IF ~data.has THEN Effect(InvalidRequest, history, << >>)
    ELSE IF env.open.raises
    THEN Effect(Reply(500, [success |-> FALSE, error_type |-> "api_error"]), history, << >>)
    ELSE LET script == [i \in 1..Len(data.commands) |->
                            Spawn("terminal_batch", data.commands[i], TerminalTimeout)]
         IN  IF env.open.took > TerminalTimeout
             THEN Effect(Reply(500, [success |-> FALSE, error_type |-> "api_error"]),
                         history, script)
             ELSE Effect(Reply(200, [success |-> TRUE, method |-> "terminal_batch",
                                     commands |-> data.commands]),
                         history, script)

\* The n-th request is served: the history is what the route has left and
\* the request, its reply and the processes started are observed.
Serve(route, data, env, e) ==
    /\ execution_history' = e.history
    /\ served' = [n |-> served.n + 1, route |-> route, data |-> data, env |-> env, reply |-> e.response,
                spawned |-> e.spawned, before |-> execution_history]
    /\ UNCHANGED <<clients, running, net, pc, bc, completed, invoked, inbound,
                   calls, raised, listening, server, clock, ticks>>

ApiExecute(data, env) ==
    /\ served.n < MaxRequests
    /\ Serve("/api/execute", data, <<env>>, execute_route(data, env, execution_history))

ApiExecuteBatch(data, envs) ==
    /\ served.n < MaxRequests
    /\ Serve("/api/execute-batch", data, envs,
             execute_batch_commands(data, envs, execution_history))

ApiExecuteTerminalBatch(data, env) ==
    /\ served.n < MaxRequests
    /\ Serve("/api/execute-terminal-batch", data, <<env>>,
             execute_terminal_batch(data, env, execution_history))

\* seq[start:] of a Python list: a negative start counts from the end, and a
\* start outside the list is clamped to its ends.
SliceFrom(seq, start) ==
    LET from == IF start < 0
                THEN (IF start + Len(seq) < 0 THEN 0 ELSE start + Len(seq))
                ELSE (IF start > Len(seq) THEN Len(seq) ELSE start)
    IN  SubSeq(seq, from + 1, Len(seq))

\* limit = request.args.get('limit', 50, type=int)
DefaultLimit == 50

\* The query of a request to /api/history: `has` tells whether it has a
\* 'limit' argument that int() accepts.
HistoryRequests ==
    [has : {TRUE}, limit : (-1)..MaxLimit]
        \cup {[has |-> FALSE, limit |-> 0]}

\* The route /api/history
get_execution_history(data, history) ==
    LET limit == IF data.has THEN data.limit ELSE DefaultLimit
    IN  Effect(Reply(200, [history |-> SliceFrom(history, -limit),
                           total |-> Len(history)]),
               history, << >>)

\* A request to /api/history is served; it runs no command and is not
\* counted in served.n.
ApiHistory(data) ==
    /\ execution_history' = get_execution_history(data, execution_history).history
    /\ served' = [n |-> served.n, route |-> "/api/history", data |-> data, env |-> << >>,
                  reply |-> get_execution_history(data, execution_history).response,
                  spawned |-> << >>, before |-> execution_history]
    /\ UNCHANGED <<clients, running, net, pc, bc, completed, invoked, inbound,
                   calls, raised, listening, server, clock, ticks>>

ExecNext ==
    \/ \E data \in ExecuteRequests, env \in Envs : ApiExecute(data, env)
    \/ \E data \in BatchRequests, envs \in [1..MaxBatch -> Envs] : ApiExecuteBatch(data, envs)
    \/ \E data \in TerminalBatchRequests, env \in Envs : ApiExecuteTerminalBatch(data, env)
    \/ \E data \in HistoryRequests : ApiHistory(data)

ExecSpec == Init /\ [][ExecNext]_vars

----------------------------------------------------------------------------
(* Properties *)

Recs == {completed[i] : i \in DOMAIN completed}

\* A returned broadcast call that made a delivery pass.
Passed(r) == r.producerCalls = 1 /\ r.produced # << >>

\* C1 (fault isolation): a broadcast with a non-empty payload, during which no
\* other coroutine changed the set, is not cut short by a failing send: it has
\* called send on every connection of the set, every connection whose send
\* did not raise has received exactly one message, those whose send raised
\* have received none, and on return the set is the initial set minus the
\* connections whose send raised.
C1_FaultIsolation ==
    \A r \in Recs :
        (Passed(r) /\ r.mutBy = {}) =>
            /\ ~r.aborted
            /\ r.attempted = r.clientsBefore
            /\ r.failed \subseteq r.clientsBefore
            /\ \A c \in r.clientsBefore \ r.failed : r.got[c] = 1
            /\ \A c \in Conns \ (r.clientsBefore \ r.failed) : r.got[c] = 0
            /\ r.clientsAfter = r.clientsBefore \ r.failed
            /\ clients = r.clientsAfter

\* A pass in which one send raised and another connection got its message.
C1_Witness ==
    \E r \in Recs :
        /\ Passed(r) /\ r.mutBy = {}
        /\ r.failed # {}
        /\ \E c \in r.clientsBefore \ r.failed : r.got[c] = 1

\* C2 (stable iteration): a pass during which a client handler registered or
\* unregistered a connection still calls send on every connection that was in
\* the set when it started, and on its return no connection whose send
\* raised is in the set.
C2_StableIteration ==
    \A r \in Recs :
        (Passed(r) /\ r.mutBy = {"handler"}) =>
            /\ r.clientsBefore \subseteq r.attempted
            /\ r.failed \cap clients = {}

\* C3 (concurrent broadcasts): a pass of a timer-driven or requested
\* broadcast during which only another broadcast changed the set (by removing the connections whose send to it raised)
\* completes: it calls send on every connection of its initial set that is
\* still in the set, and on its return no connection whose send raised is in
\* the set.
C3_ConcurrentBroadcasts ==
    \A r \in Recs :
        (Passed(r) /\ r.mutBy = {"broadcast"} /\ r.site \in {"req", "t_metrics", "t_flows"}) =>
            /\ (r.clientsBefore \cap clients) \subseteq r.attempted
            /\ r.failed \cap clients = {}

\* C4 (stalled client): whenever the monitoring loop is suspended in a send to
\* a connection that has stopped reading, the tick eventually completes (the
\* loop reaches its sleep) with that connection removed from the set.
C4_StalledClientDoesNotStallTick ==
    \A c \in Conns :
        (bc[Timer].active /\ bc[Timer].cur = c /\ net[c] = "stalled")
            ~> (pc[Timer] = "sleep" /\ c \notin clients)

\* C5 (empty set): a broadcast called while the set is empty calls no
\* producer and sends nothing.
C5_EmptySetSkipsProducer ==
    \A r \in Recs :
        r.clientsBefore = {} =>
            /\ r.producerCalls = 0
            /\ r.attempted = {}
            /\ r.got = NoCounts

\* A broadcast was called with the empty set.
C5_Witness == \E r \in Recs : r.clientsBefore = {} /\ r.producerCalls = 0

\* C6 (producer failure): a broadcast whose producer raised while collecting,
\* or returned an empty record or list, calls send on no connection, leaves
\* the set as it was, and its caller goes on as after any other return.
C6_EmptyPayloadSkipsTick ==
    \A r \in Recs :
        (r.producerCalls = 1 /\ (r.failedCollect \/ r.produced = << >>)) =>
            /\ r.attempted = {}
            /\ r.got = NoCounts
            /\ r.msgs = {}
            /\ r.clientsAfter = r.clientsBefore
            /\ clients = r.clientsBefore
            /\ ~r.aborted
            /\ pc[r.proc] # "done"

\* A broadcast whose collector raised, with a connection in the set.
C6_Witness ==
    \E r \in Recs : r.producerCalls = 1 /\ r.failedCollect /\ r.clientsBefore # {}

\* The set that a sequence of calls gives, each register taken as the
\* addition of its connection and each unregister as its removal.
RECURSIVE SetOf(_)
SetOf(cs) ==
    IF cs = << >> THEN {}
    ELSE LET before == SetOf(SubSeq(cs, 1, Len(cs) - 1))
             last == cs[Len(cs)]
         IN  IF last.op = "register" THEN before \cup {last.conn}
             ELSE before \ {last.conn}

\* C7 (register/unregister): after any sequence of register and unregister
\* calls from the empty set, the set is the one the sequence gives as
\* additions and removals, and no call has raised.
C7_SetSemantics == clients = SetOf(calls) /\ ~raised

\* A connection was registered twice in a row, and a connection was
\* unregistered while absent.
C7_Witness ==
    /\ \E i \in 2..Len(calls) :
          /\ calls[i] = calls[i - 1]
          /\ calls[i].op = "register"
    /\ \E i \in 1..Len(calls) :
          /\ calls[i].op = "unregister"
          /\ calls[i].conn \notin SetOf(SubSeq(calls, 1, i - 1))

GetMetricsText == "{\"type\": \"get_metrics\"}"
GetFlowsText == "{\"type\": \"get_flows\"}"

\* C8 (requests): the handling of one get_metrics message calls exactly one
\* broadcast, of kind metrics, and that of one get_flows message exactly one
\* of kind network_flows; the pass of such a broadcast goes over the whole
\* set, not only the requester: every connection of the set is sent to or
\* still ahead, and when no other coroutine changed the set during the pass
\* every connection whose send did not raise has received one message.
C8_RequestBroadcasts ==
    /\ inbound.msg = GetMetricsText =>
          invoked = <<[proc |-> inbound.conn, site |-> "req", kind |-> "metrics"]>>
    /\ inbound.msg = GetFlowsText =>
          invoked = <<[proc |-> inbound.conn, site |-> "req", kind |-> "network_flows"]>>
    /\ \A c \in Conns :
          (inbound.conn = c /\ inbound.msg \in {GetMetricsText, GetFlowsText} /\ bc[c].active) =>
              /\ bc[c].start = clients
              /\ bc[c].attempted \cup bc[c].pending = clients
    /\ \A r \in Recs :
          (r.site = "req" /\ Passed(r) /\ r.mutBy = {}) =>
              /\ r.attempted = r.clientsBefore
              /\ \A c \in r.clientsBefore \ r.failed : r.got[c] = 1

\* A requested flows broadcast has delivered its message to a connection
\* other than the requester.
C8_Witness ==
    \E r \in Recs :
        /\ r.site = "req" /\ r.kind = "network_flows" /\ r.mutBy = {}
        /\ \E c \in Conns \ {r.proc} : r.got[c] = 1

\* C9 (malformed inbound): the handling of a message that is no JSON, no
\* JSON object, or an object of another type calls no broadcast, leaves the
\* set and every pass as they were, and leaves the handler reading.
C9_MalformedIgnored ==
    [][ (inbound'.conn # 0 /\ inbound'.msg \notin {GetMetricsText, GetFlowsText}) =>
            /\ invoked' = << >>
            /\ completed' = << >>
            /\ clients' = clients
            /\ bc' = bc
            /\ pc'[inbound'.conn] = "recv" ]_vars

\* A registered connection has sent a JSON text that is no object.
C9_Witness ==
    /\ inbound.conn \in clients
    /\ inbound.msg = "[1]"
    /\ pc[inbound.conn] = "recv"

\* C10 (envelope): a broadcast of kind k with a non-empty snapshot, all of
\* whose sends succeeded and during which no other coroutine changed the set,
\* has called its producer once and has delivered to every connection of the
\* set exactly one message, the same for all: the JSON text of {type: k,
\* payload: snapshot}, with k metrics or network_flows.  No message sent by
\* any pass, complete or not, has another shape.
C10_Envelope ==
    /\ \A r \in Recs :
          (Passed(r) /\ r.failed = {} /\ r.mutBy = {}) =>
              /\ r.producerCalls = 1
              /\ \A c \in r.clientsBefore : r.got[c] = 1
              /\ \A c \in Conns \ r.clientsBefore : r.got[c] = 0
              /\ r.msgs = { << <<"type", r.kind>>, <<"payload", r.produced>> >> }
              /\ r.kind = IF r.site \in {"t_flows", "init_flows"} THEN "network_flows"
                          ELSE IF r.site \in {"t_metrics", "init_metrics"} THEN "metrics"
                          ELSE r.kind
    /\ \A m \in UNION ({r.msgs : r \in Recs} \cup {bc[p].msgs : p \in Procs}) :
          /\ Len(m) = 2
          /\ m[1] \in { <<"type", "metrics">>, <<"type", "network_flows">> }
          /\ m[2][1] = "payload"
          /\ m[2][2] # << >>

\* A timer-driven flows broadcast has delivered its message to two connections.
C10_Witness ==
    \E r \in Recs :
        /\ r.site = "t_flows" /\ r.failed = {} /\ r.mutBy = {}
        /\ Cardinality({c \in Conns : r.got[c] = 1}) >= 2

\* The handler of a connection that has returned has left it out of the set
\* (the finally clause of handle_client), and the step in which a handler
\* starts puts its connection in the set.
C11_ReturnedNotInSet ==
    /\ \A c \in Conns : pc[c] = "done" => c \notin clients
    /\ \A c \in Conns : (pc[c] # "idle" /\ net[c] = "open" /\ invoked # << >>
                         /\ invoked[1] = [proc |-> c, site |-> "init_metrics", kind |-> "metrics"])
                        => c \in clients

\* C11 (connection lifecycle): the connection of a handler that has returned
\* is never in the set, and a connection whose transport has closed is
\* eventually out of the set.
C11_Lifecycle ==
    /\ [](\A c \in Conns : pc[c] = "done" => c \notin clients)
    /\ \A c \in Conns : (net[c] = "closed") ~> (c \notin clients)

\* C12 (shutdown): once the shutdown signal has been handled the running
\* flag is cleared, the monitoring task is cancelled and starts no tick, and
\* when start_server is over the listening socket is closed.
C12_Shutdown ==
    /\ server # "serving" => (~running /\ pc[Timer] = "cancelled" /\ ~bc[Timer].active)
    /\ server \in {"returned", "unwound"} => ~listening

\* The monitoring loop has ended a tick in which a send raised, a collector
\* failed, or the pass was cut short by the RuntimeError of the iterator.
TickFailed ==
    /\ pc[Timer] = "sleep"
    /\ \E r \in Recs : r.proc = Timer /\ (r.failed # {} \/ r.failedCollect \/ r.aborted)

\* The monitoring loop has started a tick in the last step.
TickStarted ==
    invoked # << >> /\ invoked[1] = [proc |-> Timer, site |-> "t_metrics", kind |-> "metrics"]

\* C13 (the loop survives failures): while start_server has handled no
\* shutdown the monitoring task is in its loop, and after a tick in which
\* sends raised or a collector failed the loop starts another tick unless
\* the shutdown comes first.
C13_LoopSurvives ==
    /\ [](server = "serving" => pc[Timer] \in {"ready", "sleep", "t_metrics", "t_flows"})
    /\ TickFailed ~> (TickStarted \/ server # "serving")

\* A tick with a failed send and a failed collection is over, with no
\* shutdown.
C13_Witness ==
    /\ pc[Timer] = "sleep" /\ server = "serving"
    /\ \E r \in Recs : r.proc = Timer /\ r.failed # {}
    /\ \E r \in Recs : r.proc = Timer /\ r.failedCollect

\* C14 (cadence of a tick): every iteration of the monitoring loop calls the
\* metrics broadcast once and first, calls the flows broadcast after it
\* exactly when the second read after the metrics broadcast is even, and
\* sleeps one second before the next iteration.
C14_TickCadence ==
    ticks # << >> =>
        LET t == ticks[Len(ticks)]
        IN  /\ invoked # << >>
            /\ invoked[1] = [proc |-> Timer, site |-> "t_metrics", kind |-> "metrics"]
            /\ invoked \in { <<invoked[1]>>,
                             <<invoked[1], [proc |-> Timer, site |-> "t_flows", kind |-> "network_flows"]>> }
            /\ (Len(invoked) = 2) <=> (((t.read \div 10) % 2) = 0)
            /\ t.flows <=> (Len(invoked) = 2)
            /\ clock = (t.done + 10) % 20
            /\ Len(ticks) = 2 => t.start = (ticks[1].done + 10) % 20

\* An iteration in an odd second followed by one that has sent the flows to a
\* non-empty set.
C14_Witness ==
    /\ Len(ticks) = 2
    /\ ~ticks[1].flows /\ ticks[2].flows
    /\ ticks[2].members # {}

C15_NothingRetried ==
    /\ [](\A r \in Recs : ~r.aborted => r.failed \cap clients = {})
    /\ [][ /\ \A p \in Procs :
                (bc'[p].active /\ bc'[p].cur \notin clients') =>
                    /\ bc[p].active
                    /\ bc'[p].cur = bc[p].cur
                    /\ bc'[p].kind = bc[p].kind
                    /\ bc'[p].got = bc[p].got
                    /\ bc'[p].failed = bc[p].failed
                    /\ bc'[p].attempted = bc[p].attempted
           /\ \A c \in Conns :
                (c \notin clients /\ c \in clients') =>
                    (pc[c] = "idle" /\ pc'[c] # "idle") ]_vars

\* A connection was removed by a broadcast after its send failed (its handler
\* has not ended), and a later pass over the rest of the set has returned
\* without a send to it.
C15_Witness ==
    \E c \in Conns :
        /\ c \notin clients
        /\ pc[c] \notin {"idle", "done"}
        /\ \E r \in Recs :
              /\ Passed(r) /\ r.clientsBefore # {}
              /\ c \notin r.clientsBefore
              /\ c \notin r.attempted

\* The commands of the last request to the command executor, as the route
\* hands them on.
Requested ==
    IF served.route = "/api/execute"
    THEN IF served.data.has THEN {strip(served.data.command)} ELSE {}
    ELSE IF served.route = "/api/execute-batch"
    THEN {strip(served.data.commands[i]) : i \in DOMAIN served.data.commands}
    ELSE IF served.route = "/api/execute-terminal-batch"
    THEN {served.data.commands[i] : i \in DOMAIN served.data.commands}
    ELSE {}

\* The lower-cased text has an entry of the dangerous-command list in it.
Blocklisted(command) ==
    \E i \in DOMAIN dangerous_commands :
        \E k \in 1..Len(command) :
            /\ k + Len(dangerous_commands[i]) - 1 <= Len(command)
            /\ \A j \in 1..Len(dangerous_commands[i]) :
                  lower(command)[k + j - 1] = dangerous_commands[i][j]

\* C16 (dangerous commands): no request to /api/execute, /api/execute-batch
\* or /api/execute-terminal-batch hands a blocklisted command to a
\* subprocess, and a request with such a command is answered with
\* error_type security_block, starts no process and leaves the history as it
\* was.
C16_DangerousBlocked ==
    /\ \A i \in DOMAIN served.spawned : ~Blocklisted(served.spawned[i].command)
    /\ (\E c \in Requested : Blocklisted(c)) =>
          /\ served.reply.body.error_type = "security_block"
          /\ served.spawned = << >>
          /\ execution_history = served.before

\* The last request was to /api/execute, in the given mode, with a command
\* that passed the route's checks.
Executed(mode) ==
    /\ served.route = "/api/execute"
    /\ served.data.has
    /\ served.data.mode = mode
    /\ served.reply.status = 200

\* C17 (timeout of the background run): a command run by
\* execute_command_background that takes longer than the given timeout gives
\* the value {success: false, error_type: timeout}, not an exception, and
\* leaves the history as it was; a run that ends within the timeout gives
\* success true with returncode, stdout and stderr and appends that one
\* entry to the history.
C17_BackgroundTimeout ==
    (served.route = "/api/execute" /\ served.data.has /\ served.data.mode = "background"
        /\ served.data.command \in {CmdLs, CmdSleep} /\ ~served.env[1].run.raises) =>
        LET body == served.reply.body
            long == served.data.command = CmdSleep /\ served.data.timeout < 60
        IN  /\ served.reply.status = 200
            /\ long =>
                  /\ ~body.success
                  /\ body.error_type = "timeout"
                  /\ execution_history = served.before
            /\ ~long =>
                  /\ body.success
                  /\ {"returncode", "stdout", "stderr"} \subseteq DOMAIN body
                  /\ body.returncode = served.env[1].run.returncode
                  /\ execution_history = Append(served.before, body)

\* A background run has timed out with a run recorded before it.
C17_Witness ==
    /\ Executed("background")
    /\ ~served.reply.body.success
    /\ served.reply.body.error_type = "timeout"
    /\ served.before # << >>

\* The results of a batch that are in the history: the successful ones.
Successful(results) == SelectSeq(results, LAMBDA r : r.success)

\* C19 (batch): the results of /api/execute-batch are those of the commands
\* of the list, in its order; with stop_on_error the results end with the
\* first one that has success false, without it there is a result for every
\* command; executed_commands is the number of results and at most
\* total_commands.
C19_BatchOrder ==
    (served.route = "/api/execute-batch" /\ served.data.has) =>
        LET body == served.reply.body
            commands == served.data.commands
            n == Len(body.results)
        IN  /\ body.executed_commands = n
            /\ body.total_commands = Len(commands)
            /\ n <= Len(commands)
            /\ \A i \in 1..n : body.results[i].command = strip(commands[i])
            /\ served.data.stop_on_error =>
                  /\ \A i \in 1..(n - 1) : body.results[i].success
                  /\ n < Len(commands) => ~body.results[n].success
            /\ ~served.data.stop_on_error => n = Len(commands)
            /\ execution_history = served.before \o Successful(body.results)
            /\ \A i \in DOMAIN served.spawned :
                  \E k \in 1..n : served.spawned[i].command = strip(commands[k])

\* A batch of two commands has stopped at the first, which failed.
C19_Witness ==
    /\ served.route = "/api/execute-batch"
    /\ served.data.has /\ served.data.stop_on_error
    /\ Len(served.data.commands) = 2
    /\ Len(served.reply.body.results) = 1
    /\ ~served.reply.body.results[1].success

\* C20 (terminal first, then background): when the opening of the terminal
\* raises or exceeds its 10 seconds, the reply is that of the background run
\* of the command with the caller's timeout; when it does not, the reply is
\* success true with method visible_terminal, that one entry is appended to
\* the history and no background run is made.  The caller always gets a
\* value.
C20_TerminalFallback ==
    (served.route = "/api/execute" /\ served.data.has /\ served.data.mode = "terminal"
        /\ served.data.command \in {CmdLs, CmdSleep}) =>
        LET body == served.reply.body
            env == served.env[1]
            background == SelectSeq(served.spawned, LAMBDA p : p.via = "background")
        IN  /\ served.reply.status = 200
            /\ (env.open.raises \/ env.open.took > 10) =>
                  /\ body.success => body.method = "background"
                  /\ ~body.success => body.error_type \in {"timeout", "unknown"}
                  /\ ~env.run.raises =>
                        /\ background = <<[via |-> "background",
                                           command |-> served.data.command,
                                           timeout |-> served.data.timeout]>>
                        /\ body.success <=>
                              ~(served.data.command = CmdSleep /\ served.data.timeout < 60)
                  /\ execution_history =
                        IF body.success THEN Append(served.before, body) ELSE served.before
            /\ ~(env.open.raises \/ env.open.took > 10) =>
                  /\ body.success
                  /\ body.method = "visible_terminal"
                  /\ execution_history = Append(served.before, body)
                  /\ background = << >>

\* The opening of the terminal timed out and the command, which runs for a
\* minute, ended in the background within the caller's 100 seconds.
C20_Witness ==
    /\ Executed("terminal")
    /\ served.env[1].open.took > 10
    /\ served.data.command = CmdSleep
    /\ served.reply.body.success
    /\ served.reply.body.method = "background"


\* The last min(n, Len(seq)) elements of seq, in their order.
MostRecent(seq, n) ==
    LET k == IF n < Len(seq) THEN n ELSE Len(seq)
    IN  SubSeq(seq, Len(seq) - k + 1, Len(seq))

\* seq starts with the elements of old, in their order.
Extends(seq, old) ==
    /\ Len(old) <= Len(seq)
    /\ SubSeq(seq, 1, Len(old)) = old

\* C21, the part about the entries: a request leaves the entries the history
\* had in their places, and every entry has success true.
C21_AppendOnly ==
    /\ Extends(execution_history, served.before)
    /\ \A i \in DOMAIN execution_history : execution_history[i].success

\* C21: the history is append-only and holds only runs with success true,
\* and for every limit >= 0 the reply of /api/history has the
\* min(limit, total) most recent entries in execution order, with total the
\* length of the history.
C21_History ==
    /\ C21_AppendOnly
    /\ (served.route = "/api/history" /\ served.data.has /\ served.data.limit >= 0)
            => /\ served.reply.body.history = MostRecent(execution_history, served.data.limit)
               /\ served.reply.body.total = Len(execution_history)


\* The sites of the two broadcasts handle_client makes before it reads.
InitialSites == {"init_metrics", "init_flows"}

\* C22, the order of one step to the next: a handler leaves its start only
\* into the initial metrics broadcast, called first and after the register;
\* the initial flows broadcast is called in the step in which the initial
\* metrics broadcast returned; the handler comes to read in the step in which
\* the initial flows broadcast returned; and a message is read only by a
\* handler that was reading.
C22_Order ==
    \A c \in Conns :
        /\ (pc[c] = "idle" /\ pc'[c] # "idle") =>
              /\ invoked' # << >>
              /\ invoked'[1] = [proc |-> c, site |-> "init_metrics", kind |-> "metrics"]
        /\ \A i \in DOMAIN invoked' :
              (invoked'[i].proc = c /\ invoked'[i].site = "init_metrics") =>
                  (pc[c] = "idle" /\ i = 1)
        /\ \A i \in DOMAIN invoked' :
              (invoked'[i].proc = c /\ invoked'[i].site = "init_flows") =>
                  /\ invoked'[i].kind = "network_flows"
                  /\ pc[c] \in {"idle", "init_metrics"}
                  /\ \E j \in DOMAIN completed' :
                        completed'[j].proc = c /\ completed'[j].site = "init_metrics"
                  /\ \A j \in DOMAIN invoked' :
                        (invoked'[j].proc = c /\ invoked'[j].site = "init_flows") => j = i
        /\ (pc[c] \in {"idle"} \cup InitialSites /\ pc'[c] = "recv") =>
              \E j \in DOMAIN completed' :
                  completed'[j].proc = c /\ completed'[j].site = "init_flows"
        /\ (pc[c] \in {"idle"} \cup InitialSites) => pc'[c] \in {"idle", "recv"} \cup InitialSites
        /\ inbound'.conn = c => pc[c] = "recv"

\* C22: a new connection's handler registers it, makes one metrics broadcast,
\* then one network_flows broadcast, and only then reads messages; the two
\* broadcasts go over the whole set, which has the new connection in it: the
\* pass has every member sent to or still ahead, and when no other coroutine
\* changed the set during the pass every member whose send did not raise,
\* the connections registered earlier among them, has received one message.
C22_InitialBroadcasts ==
    /\ [][C22_Order]_vars
    /\ [](\A c \in Conns :
            (pc[c] \in InitialSites /\ bc[c].active) =>
                /\ bc[c].kind = (IF pc[c] = "init_metrics" THEN "metrics" ELSE "network_flows")
                /\ pc[c] = "init_metrics" => c \in bc[c].start
                /\ bc[c].mutBy = {} =>
                      (bc[c].start = clients /\ bc[c].attempted \cup bc[c].pending = clients))
    /\ [](\A r \in Recs :
            (r.site \in InitialSites /\ Passed(r) /\ r.mutBy = {}) =>
                /\ r.site = "init_metrics" => r.proc \in r.clientsBefore
                /\ r.attempted = r.clientsBefore
                /\ \A c \in r.clientsBefore \ r.failed : r.got[c] = 1)

\* The initial metrics broadcast of a new connection has delivered a message
\* to a connection registered before it.
C22_Witness ==
    \E r \in Recs :
        /\ r.site = "init_metrics" /\ r.mutBy = {}
        /\ \E c \in r.clientsBefore \ {r.proc} : r.got[c] = 1


\* The handler of connection c has started and not returned.
HandlerRunning(c) == pc[c] \notin {"idle", "done"}

====
